---- MODULE Spec2Model ----
(***************************************************************************)
(* Job polling of the PickAParlay frontend: the refresh coordinator of the *)
(* dashboard (app/page.tsx), the ladder coordinator (app/ladder/page.tsx)  *)
(* and the results-check coordinator (app/prop-results/page.tsx, which     *)
(* holds PropResultsPage and HistoryPage).                                 *)
(*                                                                         *)
(* One page is mounted per behaviour (Init chooses it).  A step is one     *)
(* macrotask of the browser's event loop: a click handler, a setInterval   *)
(* callback up to its first await, or the continuation of an awaited       *)
(* network call, each together with the React render and effect flush its  *)
(* state updates cause.  A state update on an unmounted component is       *)
(* dropped by React and runs no effect.                                    *)
(***************************************************************************)
EXTENDS Integers, FiniteSets, Sequences, Bags, TLC

VARIABLES
  page,           \* the page component that is mounted in this behaviour
  mounted,        \* FALSE once the page has been unmounted
  backend,        \* status of the job on the server
  net,            \* bag of the network calls in flight
  timers,         \* ids of the intervals that are active in the browser
  refreshing,     \* DashboardPage state
  refreshStatus,  \* DashboardPage state
  intervalId,     \* DashboardPage: `id` of the poll effect that is in place
  status,         \* LadderPage state (status?.status)
  triggering,     \* LadderPage state
  pollRef,        \* LadderPage pollRef.current
  checkStatus,    \* PropResultsPage / HistoryPage state
  checking,       \* PropResultsPage / HistoryPage state
  checkPollRef,   \* PropResultsPage / HistoryPage checkPollRef.current
  starts,         \* history: start attempts made (trigger calls issued)
  trig,           \* history: outcome of the latest trigger call
  termCount,      \* history: terminal branches run since the latest start
                  \*          (0, 1, or 2 for twice or more)
  tickFailed,     \* history: the last step received a failed tick fetch
  posted,         \* history: the status after which the last step issued the
                  \*          post-completion data fetch ("none": it issued none)
  loaded,         \* the page has received its data and rendered it
  rows,           \* PropResultsPage state: the prop results that were loaded
  summary,        \* PropResultsPage render: total, graded, hits, ..., hitPct
  byMarket,       \* PropResultsPage render: computeMarketStats(rows)
  byPlayer,       \* PropResultsPage render: computePlayerStats(rows)
  records,        \* the graded pick records the server holds
  data,           \* AnalyticsPage state: the analytics that were loaded
  valCalData,     \* AnalyticsPage render: value-score calibration chart
  activeFactorData, \* AnalyticsPage render: chart of the active factor
  factorSummary,  \* AnalyticsPage render: factor summary table
  slips,          \* LadderPage / SlipsPage state: the slips that were loaded
  expanded,       \* LadderPage / SlipsPage state: key of the expanded card,
                  \*          <<>> for null
  loading,        \* SlipsPage state
  error,          \* SlipsPage state
  legFilter,      \* SlipsPage state
  saved,          \* SlipsPage state: the indices idx with saved[idx] true
  savedOk         \* history: the indices for which a saveSlip call made
                  \*          since the latest buildSlips has succeeded

vars == <<page, mounted, backend, net, timers, refreshing,
          refreshStatus, intervalId, status, triggering, pollRef,
          checkStatus, checking, checkPollRef, starts, trig, termCount,
          tickFailed, posted, loaded, rows, summary, byMarket, byPlayer,
          records, data, valCalData, activeFactorData, factorSummary,
          slips, expanded, loading, error, legFilter, saved, savedOk>>

\* the state of the job coordinators
pollVars == <<page, mounted, backend, net, timers, refreshing,
              refreshStatus, intervalId, status, triggering, pollRef,
              checkStatus, checking, checkPollRef, starts, trig, termCount,
              tickFailed, posted>>

\* what the pages derive from the data they have loaded
viewVars == <<loaded, rows, summary, byMarket, byPlayer,
              records, data, valCalData, activeFactorData, factorSummary,
              slips, expanded, loading, error, legFilter, saved, savedOk>>

slipVars == <<slips, expanded>>

buildVars == <<loading, error, legFilter, saved, savedOk>>

propVars == <<rows, summary, byMarket, byPlayer>>

analyticsVars ==
  <<records, data, valCalData, activeFactorData, factorSummary>>

dashVars   == <<refreshing, refreshStatus, intervalId>>
ladderVars == <<status, triggering, pollRef>>
checkVars  == <<checkStatus, checking, checkPollRef>>

----------------------------------------------------------------------------
(* Bounds of the model *)

MaxStarts        == 3   \* start attempts per page instance
MaxInFlight      == 2   \* status fetches of interval callbacks in flight

----------------------------------------------------------------------------
(* Pages and the statuses their status endpoints report *)

Pages == {"dashboard", "ladder", "propResults", "history"}

CheckPages == {"propResults", "history"}

Null == "null"

NoTimer == 0

RefreshStatusValues == {"idle", "running", "done", "error"}

LadderStatusValues == {"idle", "running", "done", "no_games", "no_props", "error"}

ResultsStatusValues == {"idle", "running", "done", "error"}

StatusValues(p) ==
  IF p = "dashboard" THEN RefreshStatusValues
  ELSE IF p = "ladder" THEN LadderStatusValues
  ELSE ResultsStatusValues

Kinds == {"trigger", "initial", "tick", "mount"}

\* a network call in flight: the server's answer is taken when the call is
\* issued and then travels for an arbitrary time.  val is "ok" (trigger), a
\* status value, or "fail" (the promise rejects); tid is the interval id the
\* calling closure holds
Request(k, t, v) == [kind |-> k, tid |-> t, val |-> v]

Send(r) == net (+) SetToBag({r})

Receive(r) == net (-) SetToBag({r})

InFlight(k) == {r \in BagToSet(net) : r.kind = k}

\* number of calls of kind k in flight
Pending(k) ==
  LET S == InFlight(k)
      sum[T \in SUBSET S] ==
        IF T = {} THEN 0
        ELSE LET r == CHOOSE x \in T : TRUE IN CopiesIn(r, net) + sum[T \ {r}]
  IN sum[S]

\* setInterval returns a handle that is not in use: ids are named by the
\* smallest number that is not the id of an active interval
FreshId(used) ==
  CHOOSE n \in 1..(Cardinality(used) + 1) :
    n \notin used /\ \A m \in 1..(n - 1) : m \in used

\* clearInterval(id) as the closures in flight see it: an id that has been
\* cleared is never active again, so a closure that holds it holds a handle
\* whose clearInterval does nothing, like NoTimer
Cleared(r, ids) == IF r.tid \in ids THEN [r EXCEPT !.tid = NoTimer] ELSE r

Forget(b, ids) == LET F(r) == Cleared(r, ids) IN BagOfAll(F, b)

\* history counters count 0, 1, many
CountUp(n) == IF n < 2 THEN n + 1 ELSE n

\* no post-completion data fetch is issued
NoPost == "none"

\* React drops state updates of an unmounted component
SetState(old, new) == IF mounted THEN new ELSE old

----------------------------------------------------------------------------
(* The backend (external collaborator) *)

\* GET .../status: the job's status at that moment, or a failed call
StatusAnswers == {backend, "fail"}

\* the job ends in one of the non-running statuses of its kind
BackendFinish ==
  /\ backend = "running"
  /\ backend' \in StatusValues(page) \ {"running", "idle"}
  /\ tickFailed' = FALSE
  /\ posted' = NoPost
  /\ UNCHANGED <<viewVars, page, mounted, net, timers, dashVars, ladderVars,
                 checkVars, starts, trig, termCount>>

\* POST of a trigger: the server answers ok, having started the job or (it
\* only reports `{status}`) having left it as it is, or the call fails and the
\* job is left as it is
Trigger(ok) ==
  /\ net' = Send(Request("trigger", 0, IF ok THEN "ok" ELSE "fail"))
  /\ backend' \in IF ok THEN {"running", backend} ELSE {backend}
  /\ starts' = starts + 1
  /\ trig' = "inflight"
  /\ termCount' = 0
  /\ tickFailed' = FALSE
  /\ posted' = NoPost

----------------------------------------------------------------------------
(* Timers *)

\* an active interval fires: its async callback runs up to `await
\* api.*.status()`, that is, it issues a status fetch.  Only the dashboard's
\* callback closes over the interval id.
Tick(id) ==
  /\ id \in timers
  /\ Pending("tick") < MaxInFlight
  /\ \E v \in StatusAnswers :
       net' = Send(Request("tick", IF page = "dashboard" THEN id ELSE 0, v))
  /\ tickFailed' = FALSE
  /\ posted' = NoPost
  /\ UNCHANGED <<viewVars, page, mounted, backend, timers, dashVars, ladderVars,
                 checkVars, starts, trig, termCount>>

----------------------------------------------------------------------------
(* DashboardPage: refresh *)

\* the poll effect, deps [refreshing]: the cleanup of the previous
\* run clears its interval, the new run creates one while refreshing
\* `setTimeout(fetchData, 500)` of the interval callback: the props are
\* reloaded after every status that is not running
RefreshPost(v) == v

RefreshEffect(tm, r) ==
  LET id == FreshId(tm \ {intervalId}) IN
  /\ timers' = IF r THEN (tm \ {intervalId}) \cup {id} ELSE tm \ {intervalId}
  /\ intervalId' = IF r THEN id ELSE NoTimer

handleRefresh ==
  /\ page = "dashboard" /\ mounted
  /\ ~refreshing                       \* the button is disabled={refreshing}
  /\ starts < MaxStarts
  /\ refreshing' = TRUE
  /\ RefreshEffect(timers, TRUE)
  /\ \E ok \in BOOLEAN : Trigger(ok)
  /\ UNCHANGED <<viewVars, page, mounted, refreshStatus, ladderVars,
                 checkVars>>

\* `await api.refresh()` returns: the status is fetched; a rejection leaves
\* handleRefresh through the exception (there is no try/catch)
RefreshTriggerDone(r) ==
  /\ page = "dashboard"
  /\ r \in InFlight("trigger")
  /\ IF r.val = "ok"
       THEN /\ \E v \in StatusAnswers :
                 net' = Receive(r) (+) SetToBag({Request("initial", 0, v)})
            /\ trig' = "ok"
            /\ tickFailed' = FALSE
            /\ posted' = NoPost
       ELSE /\ net' = Receive(r)
            /\ trig' = "failed"
            /\ tickFailed' = FALSE
            /\ posted' = NoPost
  /\ UNCHANGED <<viewVars, page, mounted, backend, timers, dashVars, ladderVars,
                 checkVars, starts, termCount>>

\* `setRefreshStatus(await api.refreshStatus())` of handleRefresh
RefreshInitialDone(r) ==
  /\ page = "dashboard"
  /\ r \in InFlight("initial")
  /\ net' = Receive(r)
  /\ IF r.val = "fail"
       THEN /\ UNCHANGED refreshStatus
            /\ tickFailed' = FALSE
            /\ posted' = NoPost
       ELSE /\ refreshStatus' = SetState(refreshStatus, r.val)
            /\ tickFailed' = FALSE
            /\ posted' = NoPost
  /\ UNCHANGED <<viewVars, page, mounted, backend, timers, refreshing,
                 intervalId, ladderVars, checkVars, starts, trig, termCount>>

\* the interval callback after `await api.refreshStatus()`; r.tid is the `id`
\* its closure holds
RefreshTickDone(r) ==
  /\ page = "dashboard"
  /\ r \in InFlight("tick")
  /\ net' = IF r.val \in {"fail", "running"}
              THEN Receive(r)
              ELSE Forget(Receive(r), {r.tid, intervalId})
  /\ IF r.val = "fail"
       THEN /\ UNCHANGED <<timers, dashVars, termCount>>
            /\ tickFailed' = TRUE
            /\ posted' = NoPost
       ELSE /\ refreshStatus' = SetState(refreshStatus, r.val)
            /\ IF r.val # "running"     \* !s.running
                 THEN /\ refreshing' = SetState(refreshing, FALSE)
                      /\ IF mounted /\ refreshing
                           THEN RefreshEffect(timers \ {r.tid}, FALSE)
                           ELSE /\ timers' = timers \ {r.tid}
                                /\ UNCHANGED intervalId
                      /\ termCount' = CountUp(termCount)   \* setTimeout(500)
                      /\ tickFailed' = FALSE
                      /\ posted' = RefreshPost(r.val)
                 ELSE /\ UNCHANGED <<refreshing, timers, intervalId,
                                     termCount>>
                      /\ tickFailed' = FALSE
                      /\ posted' = NoPost
  /\ UNCHANGED <<viewVars, page, mounted, backend, ladderVars, checkVars, starts, trig>>

\* a filter changes: fetchData is a new callback, so the poll effect re-runs
setFilter ==
  /\ page = "dashboard" /\ mounted
  /\ RefreshEffect(timers, refreshing)
  /\ net' = Forget(net, {intervalId})
  /\ tickFailed' = FALSE
  /\ posted' = NoPost
  /\ UNCHANGED <<viewVars, page, mounted, backend, refreshing, refreshStatus,
                 ladderVars, checkVars, starts, trig, termCount>>

----------------------------------------------------------------------------
(* LadderPage *)

\* `if (s.status === "done") { ... await api.ladder.results() ... }`
LadderPost(v) == IF v = "done" THEN v ELSE NoPost

\* variant: the effect has no cleanup
LadderEffectNoCleanup(tm, old, new) ==
  IF mounted /\ old # new
    THEN LET id == FreshId(tm) IN
         /\ timers' = IF new = "running" THEN tm \cup {id} ELSE tm
         /\ pollRef' = IF new = "running" THEN id ELSE pollRef
    ELSE /\ timers' = tm
         /\ UNCHANGED pollRef

\* the poll effect, deps [status?.status]: when the status value changes, the
\* cleanup of the previous run clears pollRef.current and the new run creates
\* an interval while the status is running.  tm is the set of timers left by
\* the handler that made the update.
LadderEffect(tm, old, new) ==
  IF mounted /\ old # new
    THEN LET id == FreshId(tm \ {pollRef}) IN
         /\ timers' = IF new = "running"
                        THEN (tm \ {pollRef}) \cup {id}
                        ELSE tm \ {pollRef}
         /\ pollRef' = IF new = "running" THEN id ELSE pollRef
    ELSE /\ timers' = tm
         /\ UNCHANGED pollRef

\* `api.ladder.status().then(setStatus).catch(() => {})` of the mount effect
LadderMountStatus(r) ==
  /\ page = "ladder"
  /\ r \in InFlight("mount")
  /\ net' = Receive(r)
  /\ IF r.val = "fail"
       THEN /\ UNCHANGED <<status, timers, pollRef>>
            /\ tickFailed' = FALSE
            /\ posted' = NoPost
       ELSE /\ status' = SetState(status, r.val)
            /\ LadderEffect(timers, status, r.val)
            /\ tickFailed' = FALSE
            /\ posted' = NoPost
  /\ UNCHANGED <<viewVars, page, mounted, backend, triggering, dashVars, checkVars,
                 starts, trig, termCount>>

isRunning == status = "running"

\* `setTriggering(true); setSlips([]); setExpanded(null)` and the trigger call
runLadder ==
  /\ page = "ladder" /\ mounted
  /\ ~(isRunning \/ triggering)        \* disabled={isRunning || triggering}
  /\ starts < MaxStarts
  /\ triggering' = TRUE
  /\ slips' = <<>>
  /\ expanded' = <<>>
  /\ \E ok \in BOOLEAN : Trigger(ok)
  /\ UNCHANGED <<loaded, propVars, analyticsVars, buildVars, page, mounted,
                 timers, status, pollRef, dashVars, checkVars>>

\* `await api.ladder.trigger()` returns; a rejection goes to catch and finally
LadderTriggerDone(r) ==
  /\ page = "ladder"
  /\ r \in InFlight("trigger")
  /\ IF r.val = "ok"
       THEN /\ \E v \in StatusAnswers :
                 net' = Receive(r) (+) SetToBag({Request("initial", 0, v)})
            /\ trig' = "ok"
            /\ tickFailed' = FALSE
            /\ posted' = NoPost
            /\ UNCHANGED triggering
       ELSE /\ net' = Receive(r)
            /\ trig' = "failed"
            /\ tickFailed' = FALSE
            /\ posted' = NoPost
            /\ triggering' = SetState(triggering, FALSE)
  /\ UNCHANGED <<viewVars, page, mounted, backend, timers, status, pollRef,
                 dashVars, checkVars, starts, termCount>>

\* `const s = await api.ladder.status(); setStatus(s)` of runLadder
LadderInitialDone(r) ==
  /\ page = "ladder"
  /\ r \in InFlight("initial")
  /\ net' = Receive(r)
  /\ triggering' = SetState(triggering, FALSE)
  /\ IF r.val = "fail"
       THEN /\ UNCHANGED <<status, timers, pollRef>>
            /\ tickFailed' = FALSE
            /\ posted' = NoPost
       ELSE /\ status' = SetState(status, r.val)
            /\ LadderEffect(timers, status, r.val)
            /\ tickFailed' = FALSE
            /\ posted' = NoPost
  /\ UNCHANGED <<viewVars, page, mounted, backend, dashVars, checkVars, starts, trig, termCount>>

\* the interval callback after `await api.ladder.status()`
LadderTickDone(r) ==
  /\ page = "ladder"
  /\ r \in InFlight("tick")
  /\ net' = Receive(r)
  /\ IF r.val = "fail"
       THEN /\ UNCHANGED <<status, timers, pollRef, termCount>>
            /\ tickFailed' = TRUE
            /\ posted' = NoPost
       ELSE /\ status' = SetState(status, r.val)
            /\ IF r.val # "running"
                 THEN /\ LadderEffect(timers \ {pollRef}, status, r.val)
                      /\ termCount' = CountUp(termCount)
                      /\ tickFailed' = FALSE
                      /\ posted' = LadderPost(r.val)
                 ELSE /\ LadderEffect(timers, status, r.val)
                      /\ UNCHANGED termCount
                      /\ tickFailed' = FALSE
                      /\ posted' = NoPost
  /\ UNCHANGED <<viewVars, page, mounted, backend, triggering, dashVars, checkVars,
                 starts, trig>>

----------------------------------------------------------------------------
(* PropResultsPage and HistoryPage: results check *)

\* variant: only done and error end the loop
CheckStoppedDoneOrError(s) == s \in {"done", "error"}

\* `s.status !== "running"`: the statuses that end the loop
CheckStopped(s) == s # "running"

\* variant: a failed status fetch ends the loop like a terminal status
CheckPollErrorStops ==
  /\ timers' = timers \ {checkPollRef}
  /\ checking' = SetState(checking, FALSE)
  /\ UNCHANGED <<checkStatus, checkPollRef>>

\* `catch { /* ignore poll errors */ }` of the interval callback
CheckPollError ==
  UNCHANGED <<checkStatus, checking, checkPollRef, timers>>

\* `if (s.status === "done") load()` / `if (initial.status === "done") load()`
CheckPost(v) == IF v = "done" THEN v ELSE NoPost

autoCheck ==
  /\ page \in CheckPages /\ mounted
  /\ ~checking                         \* the button is disabled={checking}
  /\ starts < MaxStarts
  /\ checking' = TRUE
  /\ checkStatus' = Null
  /\ \E ok \in BOOLEAN : Trigger(ok)
  /\ UNCHANGED <<viewVars, page, mounted, timers, checkPollRef, dashVars,
                 ladderVars>>

\* `await api.results.check(checkDate)` returns; a rejection goes to catch
CheckTriggerDone(r) ==
  /\ page \in CheckPages
  /\ r \in InFlight("trigger")
  /\ IF r.val = "ok"
       THEN /\ \E v \in StatusAnswers :
                 net' = Receive(r) (+) SetToBag({Request("initial", 0, v)})
            /\ trig' = "ok"
            /\ tickFailed' = FALSE
            /\ posted' = NoPost
            /\ UNCHANGED checking
       ELSE /\ net' = Receive(r)
            /\ trig' = "failed"
            /\ tickFailed' = FALSE
            /\ posted' = NoPost
            /\ checking' = SetState(checking, FALSE)
  /\ UNCHANGED <<viewVars, page, mounted, backend, timers, checkStatus,
                 checkPollRef, dashVars, ladderVars, starts, termCount>>

\* `const initial = await api.results.status()` of autoCheck and the branch
\* on initial.status; the interval is created whether or not the page is
\* still mounted
CheckInitialDone(r) ==
  /\ page \in CheckPages
  /\ r \in InFlight("initial")
  /\ net' = Receive(r)
  /\ IF r.val = "fail"
       THEN /\ checking' = SetState(checking, FALSE)
            /\ UNCHANGED <<checkStatus, checkPollRef, timers, termCount>>
            /\ tickFailed' = FALSE
            /\ posted' = NoPost
       ELSE /\ checkStatus' = SetState(checkStatus, r.val)
            /\ IF ~CheckStopped(r.val)
                 THEN /\ checkPollRef' = FreshId(timers)
                      /\ timers' = timers \cup {FreshId(timers)}
                      /\ UNCHANGED <<checking, termCount>>
                      /\ tickFailed' = FALSE
                      /\ posted' = NoPost
                 ELSE /\ checking' = SetState(checking, FALSE)
                      /\ termCount' = CountUp(termCount)
                      /\ UNCHANGED <<checkPollRef, timers>>
                      /\ tickFailed' = FALSE
                      /\ posted' = CheckPost(r.val)
  /\ UNCHANGED <<viewVars, page, mounted, backend, dashVars, ladderVars, starts, trig>>

\* the interval callback after `await api.results.status()`; only
\* PropResultsPage resets checkPollRef.current to null
CheckTickDone(r) ==
  /\ page \in CheckPages
  /\ r \in InFlight("tick")
  /\ net' = Receive(r)
  /\ IF r.val = "fail"
       THEN /\ CheckPollError
            /\ UNCHANGED termCount
            /\ tickFailed' = TRUE
            /\ posted' = NoPost
       ELSE /\ checkStatus' = SetState(checkStatus, r.val)
            /\ IF CheckStopped(r.val)
                 THEN /\ timers' = timers \ {checkPollRef}
                      /\ checkPollRef' = IF page = "propResults"
                                           THEN NoTimer ELSE checkPollRef
                      /\ checking' = SetState(checking, FALSE)
                      /\ termCount' = CountUp(termCount)
                      /\ tickFailed' = FALSE
                      /\ posted' = CheckPost(r.val)
                 ELSE /\ UNCHANGED <<checking, checkPollRef, timers, termCount>>
                      /\ tickFailed' = FALSE
                      /\ posted' = NoPost
  /\ UNCHANGED <<viewVars, page, mounted, backend, dashVars, ladderVars, starts,
                 trig>>

----------------------------------------------------------------------------
(* Teardown *)

\* variant: the cleanup leaves the interval of the poller active
UnmountLeavesTimer ==
  /\ mounted
  /\ mounted' = FALSE
  /\ net' = Forget(net, {intervalId})
  /\ tickFailed' = FALSE
  /\ posted' = NoPost
  /\ UNCHANGED <<viewVars, page, backend, timers, dashVars, ladderVars,
                 checkVars, starts, trig, termCount>>

\* the page is unmounted: React runs the cleanup of its effects
Unmount ==
  /\ mounted
  /\ mounted' = FALSE
  /\ timers' = IF page = "dashboard" THEN timers \ {intervalId}
               ELSE IF page = "ladder" THEN timers \ {pollRef}
               ELSE timers \ {checkPollRef}
  /\ net' = Forget(net, {intervalId})
  /\ tickFailed' = FALSE
  /\ posted' = NoPost
  /\ UNCHANGED <<viewVars, page, backend, dashVars, ladderVars, checkVars,
                 starts, trig, termCount>>

----------------------------------------------------------------------------
(* JavaScript numbers and arrays *)

\* the results of x / 0: NaN for 0 / 0 and Infinity otherwise.  They are
\* encoded as integers that are no count, score or percentage
NaN == -1

Infinity == -2

\* Math.round(n / d) for integers n >= 0 and d >= 0: the nearest integer, a
\* half rounded up
Round(n, d) ==
  IF d = 0 THEN (IF n = 0 THEN NaN ELSE Infinity)
  ELSE (2 * n + d) \div (2 * d)

\* arr.filter(keep).length, for the sequence of the values keep(arr[i])
Count(flags) == Cardinality({i \in 1..Len(flags) : flags[i]})

\* arr.reduce((s, x) => s + term(x), 0), for the sequence of the values
\* term(arr[i])
Sum(terms) ==
  LET sum[k \in 0..Len(terms)] ==
        IF k = 0 THEN 0 ELSE sum[k - 1] + terms[k]
  IN sum[Len(terms)]

\* arr.sort(cmp), cmp[a, b] being the comparator: Array.prototype.sort is
\* stable; a is placed after every element e with cmp[e, a] <= 0
Sort(arr, cmp) ==
  LET Insert(acc, a) ==
        LET later == {i \in 1..Len(acc) : cmp[acc[i], a] > 0}
            at == IF later = {} THEN Len(acc) + 1
                  ELSE CHOOSE i \in later : \A j \in later : i <= j
        IN SubSeq(acc, 1, at - 1) \o <<a>> \o SubSeq(acc, at, Len(acc))
      sorted[k \in 0..Len(arr)] ==
        IF k = 0 THEN <<>> ELSE Insert(sorted[k - 1], arr[k])
  IN sorted[Len(arr)]

\* the keys of an object that was filled in the order of ks, the sequence of
\* the keys of the elements, as Object.entries / Object.values list them: in
\* insertion order
Keys(ks) ==
  LET keys[k \in 0..Len(ks)] ==
        IF k = 0 THEN <<>>
        ELSE IF \E i \in 1..Len(keys[k - 1]) : keys[k - 1][i] = ks[k]
               THEN keys[k - 1]
               ELSE Append(keys[k - 1], ks[k])
  IN keys[Len(ks)]

\* the elements of an array
Elements(arr) == {arr[i] : i \in 1..Len(arr)}

----------------------------------------------------------------------------
(* PropResultsPage: summary computations *)

MaxRows == 3   \* prop results in one load

Players == {"Ann", "Bob"}

Markets == {"Points", "Assists"}

LegResults == {"HIT", "MISS", Null}

\* a value_score of null, encoded as an integer that is no score
NullScore == -3

ValueScores == {NullScore, 75}

\* PropResult, with the fields the summaries read
PropResult ==
  [player_name : Players, market_label : Markets, leg_result : LegResults,
   value_score : ValueScores]

\* variant: ungraded records are counted too
MarketCountsAll(r) == TRUE

\* `if (r.leg_result == null) continue;  // skip ungraded`
MarketCounts(r) == r.leg_result # Null

computeMarketStats(rs) ==
  LET graded == SelectSeq(rs, MarketCounts)
      labels == Keys([i \in 1..Len(graded) |-> graded[i].market_label])
      stat(m) ==
        LET total == Count([i \in 1..Len(graded) |->
                              graded[i].market_label = m])
            hits == Count([i \in 1..Len(graded) |->
                             /\ graded[i].market_label = m
                             /\ graded[i].leg_result = "HIT"])
        IN [label |-> m, total |-> total, hits |-> hits,
            pct |-> IF total # 0 THEN Round(hits * 100, total) ELSE 0]
      stats == [i \in 1..Len(labels) |-> stat(labels[i])]
      cmp == [a \in Elements(stats), b \in Elements(stats) |-> b.pct - a.pct]
  IN Sort(stats, cmp)

\* `r.value_score ?? 0`
ScoreOrZero(r) == IF r.value_score = NullScore THEN 0 ELSE r.value_score

\* variant: the score is pushed after the pending check, for graded records
PlayerScoresGraded(group) == SelectSeq(group, LAMBDA r : r.leg_result # Null)

\* `acc[key].scores.push(r.value_score ?? 0)` comes before the pending check:
\* the records whose scores are averaged
PlayerScores(group) == group

computePlayerStats(rs) ==
  LET key(r) == r.player_name \o "||" \o r.market_label
      keys == Keys([i \in 1..Len(rs) |-> key(rs[i])])
      stat(k) ==
        LET group == SelectSeq(rs, LAMBDA r : key(r) = k)
            scores == PlayerScores(group)
            graded == Count([i \in 1..Len(group) |->
                               group[i].leg_result # Null])
            hits == Count([i \in 1..Len(group) |->
                             /\ group[i].leg_result # Null
                             /\ group[i].leg_result = "HIT"])
        IN [player |-> group[1].player_name,
            market |-> group[1].market_label,
            total |-> graded,
            hits |-> hits,
            hit_pct |-> IF graded # 0 THEN Round(hits * 100, graded) ELSE 0,
            avg_score |->
              Round(Sum([i \in 1..Len(scores) |-> ScoreOrZero(scores[i])]),
                    Len(scores)),
            pending |-> Count([i \in 1..Len(group) |->
                                 group[i].leg_result = Null])]
      stats == [i \in 1..Len(keys) |-> stat(keys[i])]
      cmp == [a \in Elements(stats), b \in Elements(stats) |->
                IF b.total - a.total # 0 THEN b.total - a.total
                ELSE b.hit_pct - a.hit_pct]
  IN Sort(stats, cmp)

\* variant: graded and pending are not kept apart, every row counts as graded
SummaryOfAll(rs) ==
  LET total == Len(rs)
      hits == Count([i \in 1..Len(rs) |-> rs[i].leg_result = "HIT"])
      misses == Count([i \in 1..Len(rs) |-> rs[i].leg_result = "MISS"])
  IN [total |-> total, graded |-> total, hits |-> hits,
      misses |-> misses, pending |-> 0,
      hitPct |-> IF total # 0 THEN Round(hits * 100, total) ELSE 0]

\* the summary stats of the render: graded and pending are kept apart
Summary(rs) ==
  LET total == Len(rs)
      graded == Count([i \in 1..Len(rs) |-> rs[i].leg_result # Null])
      hits == Count([i \in 1..Len(rs) |-> rs[i].leg_result = "HIT"])
      misses == Count([i \in 1..Len(rs) |-> rs[i].leg_result = "MISS"])
  IN [total |-> total, graded |-> graded, hits |-> hits,
      misses |-> misses, pending |-> total - graded,
      hitPct |-> IF graded # 0 THEN Round(hits * 100, graded) ELSE 0]

\* the render of PropResultsPage
RenderPropResults(rs) ==
  /\ summary' = Summary(rs)
  /\ byMarket' = computeMarketStats(rs)
  /\ byPlayer' = computePlayerStats(rs)

\* what api.propResults may answer
PropResultLists == UNION {[1..n -> PropResult] : n \in 0..MaxRows}

\* `const data = await api.propResults(...); setRows(data); setLoaded(true)`
\* of load, and the render that follows (one load per behaviour)
load ==
  /\ page = "propResults" /\ ~loaded
  /\ \E answer \in PropResultLists :
       /\ rows' = answer
       /\ RenderPropResults(answer)
  /\ loaded' = TRUE
  /\ UNCHANGED <<pollVars, analyticsVars, slipVars, buildVars>>

\* a state update that leaves rows as they are (a tab, a filter input): the
\* page renders again
rerender ==
  /\ page = "propResults" /\ loaded
  /\ RenderPropResults(rows)
  /\ UNCHANGED <<loaded, rows>>
  /\ UNCHANGED <<pollVars, analyticsVars, slipVars, buildVars>>

----------------------------------------------------------------------------
(* Calibration buckets (server) and AnalyticsPage *)

MaxRecords == 2   \* graded pick records behind one analytics answer

\* scores of the 0-100 domain
Scores == {7, 60, 97, 100}

\* a graded pick record, with its value score and the score of one factor
GradedRecord ==
  [value_score : Scores \cup {NullScore},
   score_consistency : Scores \cup {NullScore},
   leg_result : {"HIT", "MISS"}]

GradedRecordLists == UNION {[1..n -> GradedRecord] : n \in 0..MaxRecords}

ValueBucketWidth == 5

FactorBucketWidth == 10

DomainMax == 100

\* the factors of the summary table; the analytics answer has a series for
\* the first only
FACTOR_ORDER == <<"Consistency", "vs Opponent">>

\* bucketize(records, extractValue, bucketWidth, domainMax), for the
\* sequence of the pairs (extracted value, hit?) of the records: the buckets
\* from 0 to domainMax in steps of bucketWidth (the last one starts at
\* domainMax: for width 5 the scores 97 and 100 are counted in the buckets
\* 95-99 and 100-104); a value is counted in bucket
\* floor(value / bucketWidth), clamped to the last bucket; records without a
\* value are left out
bucketize(pairs, bucketWidth, domainMax) ==
  LET last == domainMax \div bucketWidth
      index(v) == IF v \div bucketWidth > last THEN last
                  ELSE v \div bucketWidth
      valued == SelectSeq(pairs, LAMBDA r : r.value # NullScore)
  IN [i \in 1..(last + 1) |->
        [bucket |-> (i - 1) * bucketWidth,
         total |-> Count([k \in 1..Len(valued) |->
                            index(valued[k].value) = i - 1]),
         hits |-> Count([k \in 1..Len(valued) |->
                           index(valued[k].value) = i - 1 /\ valued[k].hit])]]

\* GET /analytics: the pre-bucketed calibration series
Analytics(recs) ==
  LET value == [k \in 1..Len(recs) |->
                  [value |-> recs[k].value_score,
                   hit |-> recs[k].leg_result = "HIT"]]
      consistency == [k \in 1..Len(recs) |->
                        [value |-> recs[k].score_consistency,
                         hit |-> recs[k].leg_result = "HIT"]]
  IN [value_calibration |->
        bucketize(value, ValueBucketWidth, DomainMax),
      factor_calibration |->
        [name \in {"Consistency"} |->
           bucketize(consistency, FactorBucketWidth, DomainMax)]]

\* the analytics before they are loaded (`data` is null: nothing is derived)
NoData == [value_calibration |-> <<>>, factor_calibration |-> <<>>]

\* variant: the rate is computed whatever the total
pctUnguarded(hits, total) == Round(hits * 100, total)

pct(hits, total) == IF total # 0 THEN Round(hits * 100, total) ELSE 0

\* variant: the label of the factor chart, ten wide
ValCalLabelTenWide(r) == <<r.bucket, r.bucket + 9>>

\* `${r.bucket}–${r.bucket + 4}`: the two numbers of the label
ValCalLabel(r) == <<r.bucket, r.bucket + 4>>

\* `${r.bucket}–${r.bucket + 9}`
FactorLabel(r) == <<r.bucket, r.bucket + 9>>

ValCalData(d) ==
  [i \in 1..Len(d.value_calibration) |->
     LET r == d.value_calibration[i]
     IN [bucket |-> ValCalLabel(r), actual_pct |-> pct(r.hits, r.total),
         sample |-> r.total, hits |-> r.hits]]

\* `factor_calibration[name] ?? []`
FactorBuckets(d, name) ==
  IF name \in DOMAIN d.factor_calibration
    THEN d.factor_calibration[name] ELSE <<>>

ActiveFactorData(d, activeFactor) ==
  LET series == FactorBuckets(d, activeFactor)
  IN [i \in 1..Len(series) |->
        LET r == series[i]
        IN [bucket |-> FactorLabel(r), actual_pct |-> pct(r.hits, r.total),
            ideal |-> IF r.bucket + 5 > 100 THEN 100 ELSE r.bucket + 5,
            sample |-> r.total, hits |-> r.hits]]

\* `buckets.filter(b => b.bucket >= 60)`
HighBuckets(buckets) == SelectSeq(buckets, LAMBDA b : b.bucket >= 60)

\* `b.total` of each bucket
Totals(buckets) == [i \in 1..Len(buckets) |-> buckets[i].total]

\* `b.hits` of each bucket
Hits(buckets) == [i \in 1..Len(buckets) |-> buckets[i].hits]

\* variant: the overall sample is taken from the high buckets
AllTotalOfHigh(buckets) == Sum(Totals(HighBuckets(buckets)))

\* `buckets.reduce((s, b) => s + b.total, 0)`
AllTotal(buckets) == Sum(Totals(buckets))

FactorSummary(d) ==
  [i \in 1..Len(FACTOR_ORDER) |->
     LET name == FACTOR_ORDER[i]
         buckets == FactorBuckets(d, name)
         highBuckets == HighBuckets(buckets)
         totalHigh == Sum(Totals(highBuckets))
         hitsHigh == Sum(Hits(highBuckets))
         allTotal == AllTotal(buckets)
         allHits == Sum(Hits(buckets))
     IN [name |-> name,
         overall_pct |-> pct(allHits, allTotal),
         overall_n |-> allTotal,
         high_pct |-> pct(hitsHigh, totalHigh),
         high_n |-> totalHigh]]

\* variant: the cell always shows the rate
HighCellAlways(f) == <<f.high_pct>>

\* the "Score 60+" cell of a row of the factor summary table:
\* `f.high_n > 0 ? `${f.high_pct}%` : "—"`, the dash written as <<>>
HighCell(f) == IF f.high_n > 0 THEN <<f.high_pct>> ELSE <<>>

\* the render of AnalyticsPage once the data is there
RenderAnalytics(d, activeFactor) ==
  /\ valCalData' = ValCalData(d)
  /\ activeFactorData' = ActiveFactorData(d, activeFactor)
  /\ factorSummary' = FactorSummary(d)

\* `api.analytics().then(setData)` of the mount effect, and the render that
\* follows
loadAnalytics ==
  /\ page = "analytics" /\ ~loaded
  /\ data' = Analytics(records)
  /\ RenderAnalytics(Analytics(records), "Consistency")
  /\ loaded' = TRUE
  /\ UNCHANGED <<pollVars, propVars, slipVars, buildVars, records>>

\* `setActiveFactor(f.name)`: the page renders again
setActiveFactor ==
  /\ page = "analytics" /\ loaded
  /\ \E f \in 1..Len(FACTOR_ORDER) : RenderAnalytics(data, FACTOR_ORDER[f])
  /\ UNCHANGED <<pollVars, propVars, slipVars, buildVars, loaded, records,
                 data>>

----------------------------------------------------------------------------
(* LadderPage: single picks and parlays *)

MaxSlips == 3   \* slips in one ladder result

\* Slip, with the fields the page groups by: `type` is optional (Null when
\* the endpoint did not set it), legs is the number of legs
Slip == [type : {"single", "multi", Null}, legs : {1, 2}]

SlipLists == UNION {[1..n -> Slip] : n \in 0..MaxSlips}

\* `slips.filter(s => s.type === "single")`
singles(ss) == SelectSeq(ss, LAMBDA x : x.type = "single")

\* variant: the multis are the slips of type "multi"
multisTyped(ss) == SelectSeq(ss, LAMBDA x : x.type = "multi")

\* `slips.filter(s => s.type !== "single")`
multis(ss) == SelectSeq(ss, LAMBDA x : x.type # "single")

\* the cards that are rendered: prefix and idx of `singles.map((slip, idx)`
\* and `multis.map((slip, idx)`
Cards(ss) ==
  {<<"s", idx>> : idx \in 0..(Len(singles(ss)) - 1)}
    \cup {<<"m", idx>> : idx \in 0..(Len(multis(ss)) - 1)}

\* variant: the index of a single is negated without the offset
cardKeyNegated(prefix, idx) == IF prefix = "s" THEN 0 - idx ELSE idx

\* `prefix === "s" ? -(idx + 1) : idx`
cardKey(prefix, idx) == IF prefix = "s" THEN 0 - (idx + 1) ELSE idx

\* `expanded === cardKey`
isExpanded(prefix, idx) == expanded = <<cardKey(prefix, idx)>>

\* `api.ladder.results().then(setSlips)` (one load per behaviour)
setSlips ==
  /\ page = "ladder" /\ ~loaded
  /\ slips' \in SlipLists
  /\ loaded' = TRUE
  /\ UNCHANGED <<pollVars, propVars, analyticsVars, buildVars, expanded>>

\* the "View detail" / "Hide detail" button of a card:
\* `setExpanded(isExpanded ? null : cardKey)`
setExpanded(prefix, idx) ==
  /\ page = "ladder"
  /\ <<prefix, idx>> \in Cards(slips)
  /\ expanded' = IF isExpanded(prefix, idx) THEN <<>>
                 ELSE <<cardKey(prefix, idx)>>
  /\ UNCHANGED <<pollVars, propVars, analyticsVars, buildVars, loaded,
                 slips>>

----------------------------------------------------------------------------
(* SlipsPage: build and save slips *)

MaxSaves == 2   \* api.saveSlip calls in flight

\* the slips of POST /slips: the type field is set by the ladder endpoint only
BuiltSlips == {ss \in SlipLists : \A i \in 1..Len(ss) : ss[i].type = Null}

LegFilters == {"all", "2", "3", "4"}

\* `Number(legFilter)`
LegCount(f) == IF f = "2" THEN 2 ELSE IF f = "3" THEN 3 ELSE 4

\* the original indices of the slips that are displayed:
\* `legFilter === "all" || slip.legs.length === Number(legFilter)`
DisplayedIdx ==
  {idx \in 0..(Len(slips) - 1) :
     legFilter = "all" \/ slips[idx + 1].legs = LegCount(legFilter)}

\* the state of the pages other than the slips page, and of the job
\* coordinators, which the slips page does not have
otherVars ==
  <<page, mounted, backend, timers, dashVars, ladderVars, checkVars, starts,
    trig, termCount, tickFailed, posted, loaded, propVars, analyticsVars>>

\* the api.saveSlip calls in flight, those made before the latest buildSlips
\* included
SavesInFlight == InFlight("save") \cup InFlight("oldSave")

\* a buildSlips call makes the api.saveSlip calls in flight calls of an
\* earlier result set
Outdated(r) == IF r.kind = "save" THEN [r EXCEPT !.kind = "oldSave"] ELSE r

\* buildSlips up to `await api.slips(...)`:
\* `setLoading(true); setError(null); setSlips([]); setExpanded(null);
\* setLegFilter("all")`
buildSlips ==
  /\ page = "slips"
  /\ ~loading                          \* the button is disabled={loading}
  /\ loading' = TRUE /\ error' = Null /\ slips' = <<>> /\ expanded' = <<>>
  /\ legFilter' = "all"
  /\ savedOk' = {}
  /\ \E ok \in BOOLEAN :
       net' = BagOfAll(Outdated, net)
                (+) SetToBag({Request("build", 0, IF ok THEN "ok" ELSE "fail")})
  /\ UNCHANGED <<otherVars, saved>>

\* `await api.slips(...)` returns: `setSlips(result)`, or `setError` in the
\* catch, and `setLoading(false)` in the finally
buildSlipsDone(r) ==
  /\ page = "slips"
  /\ r \in InFlight("build")
  /\ net' = Receive(r)
  /\ IF r.val = "ok"
       THEN \E result \in BuiltSlips : slips' = result /\ UNCHANGED error
       ELSE error' = "message" /\ UNCHANGED slips
  /\ loading' = FALSE
  /\ UNCHANGED <<otherVars, expanded, legFilter, saved, savedOk>>

\* the Save Slip button of a displayed slip, disabled={saved[idx]}: saveSlip
\* up to `await api.saveSlip(...)`
saveSlip(idx) ==
  /\ page = "slips"
  /\ idx \in DisplayedIdx
  /\ idx \notin saved
  /\ Pending("save") + Pending("oldSave") < MaxSaves
  /\ \E ok \in BOOLEAN :
       net' = Send(Request("save", idx, IF ok THEN "ok" ELSE "fail"))
  /\ UNCHANGED <<otherVars, slipVars, buildVars>>

\* `await api.saveSlip(...)` returns: `setSaved(s => ({ ...s, [idx]: true }))`,
\* or the alert of the catch
saveSlipDone(r) ==
  /\ page = "slips"
  /\ r \in SavesInFlight
  /\ net' = Receive(r)
  /\ saved' = IF r.val = "ok" THEN saved \cup {r.tid} ELSE saved
  /\ savedOk' = IF r.val = "ok" /\ r.kind = "save"
                  THEN savedOk \cup {r.tid} ELSE savedOk
  /\ UNCHANGED <<otherVars, slipVars, loading, error, legFilter>>

\* `setExpanded(expanded === idx ? null : idx)`
toggleDetail(idx) ==
  /\ page = "slips"
  /\ idx \in DisplayedIdx
  /\ expanded' = IF expanded = <<idx>> THEN <<>> ELSE <<idx>>
  /\ UNCHANGED <<otherVars, net, slips, buildVars>>

\* the filter buttons, shown when slips.length > 0
setLegFilter(f) ==
  /\ page = "slips"
  /\ Len(slips) > 0
  /\ legFilter' = f
  /\ UNCHANGED <<otherVars, net, slipVars, loading, error, saved, savedOk>>

----------------------------------------------------------------------------
(* The specification *)

\* the state after the first render of the page; LadderPage's mount effect
\* has issued its status call, and the job may have been started before
Init ==
  /\ page \in Pages
  /\ mounted = TRUE
  /\ backend \in IF page = "ladder" THEN {"idle", "running"} ELSE {"idle"}
  /\ net \in IF page = "ladder"
               THEN {SetToBag({Request("mount", 0, v)}) : v \in {backend, "fail"}}
               ELSE {EmptyBag}
  /\ timers = {}
  /\ refreshing = FALSE /\ refreshStatus = Null
  /\ intervalId = NoTimer
  /\ status = Null /\ triggering = FALSE /\ pollRef = NoTimer
  /\ checkStatus = Null /\ checking = FALSE /\ checkPollRef = NoTimer
  /\ starts = 0 /\ trig = "none"
  /\ termCount = 0
  /\ tickFailed = FALSE
  /\ posted = NoPost
  /\ loaded = FALSE /\ rows = <<>>
  /\ summary = Summary(<<>>)
  /\ byMarket = <<>> /\ byPlayer = <<>>
  /\ records = <<>> /\ data = NoData
  /\ valCalData = <<>> /\ activeFactorData = <<>> /\ factorSummary = <<>>
  /\ slips = <<>> /\ expanded = <<>>
  /\ loading = FALSE /\ error = Null /\ legFilter = "all"
  /\ saved = {} /\ savedOk = {}

Next ==
  \/ handleRefresh
  \/ \E r \in BagToSet(net) : RefreshTriggerDone(r)
  \/ \E r \in BagToSet(net) : RefreshInitialDone(r)
  \/ \E r \in BagToSet(net) : RefreshTickDone(r)
  \/ setFilter
  \/ \E r \in BagToSet(net) : LadderMountStatus(r)
  \/ runLadder
  \/ \E r \in BagToSet(net) : LadderTriggerDone(r)
  \/ \E r \in BagToSet(net) : LadderInitialDone(r)
  \/ \E r \in BagToSet(net) : LadderTickDone(r)
  \/ autoCheck
  \/ \E r \in BagToSet(net) : CheckTriggerDone(r)
  \/ \E r \in BagToSet(net) : CheckInitialDone(r)
  \/ \E r \in BagToSet(net) : CheckTickDone(r)
  \/ \E id \in timers : Tick(id)
  \/ BackendFinish
  \/ Unmount

Spec == Init /\ [][Next]_vars

\* an interval fires and the status fetch of its callback is answered
TickAnswered ==
  \E id \in timers :
    /\ Tick(id)
    /\ \E r \in BagToSet(net') :
         r.kind = "tick" /\ r.val # "fail" /\ CopiesIn(r, net') > CopiesIn(r, net)

\* the answer of a call of kind k arrives and its continuation runs
ResponseHandled(k) ==
  \E r \in InFlight(k) :
    \/ RefreshTriggerDone(r)
    \/ RefreshInitialDone(r)
    \/ RefreshTickDone(r)
    \/ LadderMountStatus(r)
    \/ LadderTriggerDone(r)
    \/ LadderInitialDone(r)
    \/ LadderTickDone(r)
    \/ CheckTriggerDone(r)
    \/ CheckInitialDone(r)
    \/ CheckTickDone(r)

\* the pages as long as they stay mounted
LiveNext ==
  \/ handleRefresh
  \/ setFilter
  \/ runLadder
  \/ autoCheck
  \/ \E k \in Kinds : ResponseHandled(k)
  \/ \E id \in timers : Tick(id)
  \/ BackendFinish

\* every call in flight is answered, the job on the server ends, and an
\* active interval keeps firing with status fetches that succeed
LiveSpec ==
  /\ Init
  /\ [][LiveNext]_vars
  /\ \A k \in Kinds : WF_vars(ResponseHandled(k))
  /\ WF_vars(BackendFinish)
  /\ SF_vars(TickAnswered)

\* the pages that derive statistics and groups from loaded data
ViewPages == {"propResults", "analytics", "ladder"}

ViewInit ==
  /\ page \in ViewPages
  /\ mounted = TRUE
  /\ backend = "idle" /\ net = EmptyBag /\ timers = {}
  /\ refreshing = FALSE /\ refreshStatus = Null
  /\ intervalId = NoTimer
  /\ status = Null /\ triggering = FALSE /\ pollRef = NoTimer
  /\ checkStatus = Null /\ checking = FALSE /\ checkPollRef = NoTimer
  /\ starts = 0 /\ trig = "none"
  /\ termCount = 0
  /\ tickFailed = FALSE
  /\ posted = NoPost
  /\ loaded = FALSE /\ rows = <<>>
  /\ summary = Summary(<<>>)
  /\ byMarket = <<>> /\ byPlayer = <<>>
  /\ records \in IF page = "analytics" THEN GradedRecordLists ELSE {<<>>}
  /\ data = NoData
  /\ valCalData = <<>> /\ activeFactorData = <<>> /\ factorSummary = <<>>
  /\ slips = <<>> /\ expanded = <<>>
  /\ loading = FALSE /\ error = Null /\ legFilter = "all"
  /\ saved = {} /\ savedOk = {}

ViewNext ==
  \/ load
  \/ rerender
  \/ loadAnalytics
  \/ setActiveFactor
  \/ setSlips
  \/ \E prefix \in {"s", "m"}, idx \in 0..(MaxSlips - 1) :
       setExpanded(prefix, idx)

ViewSpec == ViewInit /\ [][ViewNext]_vars

\* SlipsPage
SlipsInit ==
  /\ page = "slips"
  /\ mounted = TRUE
  /\ backend = "idle" /\ net = EmptyBag /\ timers = {}
  /\ refreshing = FALSE /\ refreshStatus = Null
  /\ intervalId = NoTimer
  /\ status = Null /\ triggering = FALSE /\ pollRef = NoTimer
  /\ checkStatus = Null /\ checking = FALSE /\ checkPollRef = NoTimer
  /\ starts = 0 /\ trig = "none"
  /\ termCount = 0
  /\ tickFailed = FALSE
  /\ posted = NoPost
  /\ loaded = FALSE /\ rows = <<>>
  /\ summary = Summary(<<>>)
  /\ byMarket = <<>> /\ byPlayer = <<>>
  /\ records = <<>> /\ data = NoData
  /\ valCalData = <<>> /\ activeFactorData = <<>> /\ factorSummary = <<>>
  /\ slips = <<>> /\ expanded = <<>>
  /\ loading = FALSE /\ error = Null /\ legFilter = "all"
  /\ saved = {} /\ savedOk = {}

SlipsNext ==
  \/ buildSlips
  \/ \E r \in BagToSet(net) : buildSlipsDone(r)
  \/ \E idx \in 0..(MaxSlips - 1) : saveSlip(idx)
  \/ \E r \in BagToSet(net) : saveSlipDone(r)
  \/ \E idx \in 0..(MaxSlips - 1) : toggleDetail(idx)
  \/ \E f \in LegFilters : setLegFilter(f)

SlipsSpec == SlipsInit /\ [][SlipsNext]_vars

TypeOK ==
  /\ page \in Pages /\ mounted \in BOOLEAN
  /\ backend \in StatusValues(page)
  /\ \A r \in BagToSet(net) : r.kind \in Kinds
  /\ timers \subseteq 1..(MaxStarts + MaxInFlight)
  /\ refreshing \in BOOLEAN /\ triggering \in BOOLEAN /\ checking \in BOOLEAN
  /\ refreshStatus \in RefreshStatusValues \cup {Null}
  /\ status \in LadderStatusValues \cup {Null}
  /\ checkStatus \in ResultsStatusValues \cup {Null}

----------------------------------------------------------------------------
(* Vocabulary of the properties *)

\* the trigger control of the page is disabled
ControlDisabled ==
  IF page = "dashboard" THEN refreshing
  ELSE IF page = "ladder" THEN isRunning \/ triggering
  ELSE checking

\* status fetches of the poller (handler and ticks) that are in flight
StatusFetches == Pending("initial") + Pending("tick")

\* the status fetches of the poller that are in flight
StatusRequests == InFlight("initial") \cup InFlight("tick")

\* LadderPage: no loop was started by the status loaded at mount
NoMountLoop ==
  page = "ladder" => (Pending("mount") = 0 /\ status \in {Null, "idle"})

\* a step that receives the rejected status fetch of a tick
TickFailureStep ==
  \E r \in InFlight("tick") : r.val = "fail" /\ net' = Receive(r)

\* a terminal status has been observed since the latest start
TerminalObserved ==
  IF page = "dashboard" THEN refreshStatus \notin {Null, "running"}
  ELSE termCount >= 1

----------------------------------------------------------------------------
(* Properties *)

\* C1: on a mounted page at most one polling timer is active, and while one is
\* active the trigger control is disabled (a further start is rejected).
C1_AtMostOneLoop ==
  mounted => /\ Cardinality(timers) <= 1
             /\ timers # {} => ControlDisabled

\* C2: when the trigger call of a start attempt has failed (the job has never
\* been running, so no earlier loop exists), no polling has started: no timer
\* is active and no status fetch is in flight.
C2_NoPollingAfterTriggerFailure ==
  (trig = "failed" /\ backend = "idle")
    => timers = {} /\ StatusFetches = 0

\* C3: within the first start (on the ladder page: when the status loaded at
\* mount started no loop) no timer is scheduled and no status fetch is issued
\* before the trigger call has returned successfully, and when the immediate
\* status fetch returns a status other than running no tick is scheduled.
C3_TriggerThenStatusThenTicks ==
  [][/\ (starts' = 1 /\ trig' = "inflight" /\ NoMountLoop')
          => (timers' = {} /\ StatusFetches' = 0)
     /\ \A r \in InFlight("initial") :
          (starts = 1 /\ NoMountLoop /\ net' = Receive(r)
             /\ r.val \notin {"running", "fail"})
            => timers' = {}]_vars

\* C4: a step that receives the failed status fetch of a poll tick changes
\* neither the last-known status nor the in-progress flag nor the timers, so
\* the loop goes on and the interval keeps firing.
C4_FailedTickSkipped ==
  [][TickFailureStep =>
       UNCHANGED <<refreshStatus, refreshing, status, triggering, checkStatus,
                   checking, timers, intervalId, pollRef, checkPollRef>>]_vars

\* C4 witness: the status fetch of a tick of the results-check loop has just
\* failed and the loop is still polling with its flag and status as before.
C4_Witness ==
  /\ page \in CheckPages /\ mounted /\ starts = 1 /\ tickFailed
  /\ checking /\ checkStatus = "running" /\ timers = {checkPollRef}

\* C5: for one started job the terminal action runs at most once: after a
\* successful trigger the terminal branch has not run twice since that start.
C5_TerminalOnce ==
  trig = "ok" => termCount <= 1

\* C6: on the dashboard and the results pages, once a terminal status has
\* been observed in the first start, the N+1 fetches have been made: no timer
\* is active and no further status fetch is in flight.
C6_ExactlyNPlusOneFetches ==
  (page # "ladder" /\ starts = 1 /\ trig = "ok" /\ TerminalObserved)
    => timers = {} /\ StatusFetches = 0

\* C7: after the page has been unmounted (its timer cancelled) no terminal
\* branch with its post-completion action runs.
C7_NoCallbackAfterCancel ==
  [][~mounted => termCount' = termCount]_vars

\* C8: once the page is unmounted no polling timer is active.
C8_NoTimerAfterTeardown ==
  ~mounted => timers = {}

\* C9: at most one status fetch of the poller is in flight at any time.
C9_SequentialFetches ==
  StatusFetches <= 1

C11_PostOnlyAfterSuccess ==
  posted \notin {"error", "no_games", "no_props"}

\* C12: on the ladder and the results pages, a step that receives status done
\* for a started job, be it the immediate status fetch after the trigger or
\* the fetch of a poll tick, issues the fetch of the resulting dataset.
C12_PostWheneverDone ==
  [][\A r \in StatusRequests :
       (page \in {"ladder"} \cup CheckPages /\ net' = Receive(r)
          /\ r.val = "done")
         => posted' = "done"]_vars

\* the indices of the loaded rows of a market, and of a player and market
RowsOfMarket(m) == {i \in 1..Len(rows) : rows[i].market_label = m}

RowsOfPlayer(p, m) ==
  {i \in 1..Len(rows) : rows[i].player_name = p /\ rows[i].market_label = m}

GradedRows == {i \in 1..Len(rows) : rows[i].leg_result # Null}

HitRows == {i \in 1..Len(rows) : rows[i].leg_result = "HIT"}

\* C16: for every market, byMarket has one entry with total = the graded
\* records of the market and hits = those with result HIT, or no entry when
\* the market has no graded record; the totals add up to the graded records.
C16_MarketRollup ==
  /\ \A m \in Markets :
       LET graded == RowsOfMarket(m) \cap GradedRows
           entries == {i \in 1..Len(byMarket) : byMarket[i].label = m}
       IN IF graded = {} THEN entries = {}
          ELSE /\ Cardinality(entries) = 1
               /\ \A i \in entries :
                    /\ byMarket[i].total = Cardinality(graded)
                    /\ byMarket[i].hits = Cardinality(graded \cap HitRows)
  /\ Sum(Totals(byMarket)) = Cardinality(GradedRows)

\* C16 witness: the rows of one market are all ungraded and the other market
\* has a hit and a miss, which make its one entry.
C16_Witness ==
  /\ loaded /\ Len(rows) = 3 /\ Len(byMarket) = 1
  /\ \E m \in Markets :
       RowsOfMarket(m) # {} /\ RowsOfMarket(m) \cap GradedRows = {}
  /\ byMarket[1].total = 2 /\ byMarket[1].hits = 1

\* C17: for every (player, market) group, byPlayer has one entry: graded
\* count + pending count = the records of the group, pending = the records
\* with null result, the mean score is over all records of the group, and the
\* hit rate is over the graded ones (0 when there is none).
C17_PlayerRollup ==
  \A p \in Players, m \in Markets :
    LET group == RowsOfPlayer(p, m)
        graded == group \cap GradedRows
        hits == group \cap HitRows
        all == SelectSeq(rows, LAMBDA r : r.player_name = p
                                          /\ r.market_label = m)
        entries == {i \in 1..Len(byPlayer) :
                      byPlayer[i].player = p /\ byPlayer[i].market = m}
    IN IF group = {} THEN entries = {}
       ELSE /\ Cardinality(entries) = 1
            /\ \A i \in entries :
                 /\ byPlayer[i].total + byPlayer[i].pending
                      = Cardinality(group)
                 /\ byPlayer[i].pending = Cardinality(group \ GradedRows)
                 /\ byPlayer[i].hits = Cardinality(hits)
                 /\ byPlayer[i].avg_score
                      = Round(Sum([k \in 1..Len(all) |->
                                     ScoreOrZero(all[k])]),
                              Cardinality(group))
                 /\ byPlayer[i].hit_pct
                      = (IF graded = {} THEN 0
                         ELSE Round(100 * Cardinality(hits),
                                    Cardinality(graded)))

\* C17 witness: one group has only pending records, another has a graded hit
\* and a pending record, whose score counts in the mean.
C17_Witness ==
  /\ loaded /\ Len(rows) = 3 /\ Len(byPlayer) = 2
  /\ byPlayer[1].total = 1 /\ byPlayer[1].pending = 1
  /\ byPlayer[1].hit_pct = 100 /\ byPlayer[1].avg_score = 38
  /\ byPlayer[2].total = 0 /\ byPlayer[2].pending = 1
  /\ byPlayer[2].hit_pct = 0

\* the graded records that carry a value score, and a consistency score
WithValue == {k \in 1..Len(records) : records[k].value_score # NullScore}

WithConsistency ==
  {k \in 1..Len(records) : records[k].score_consistency # NullScore}

\* the analytics page shows loaded data
AnalyticsShown == page = "analytics" /\ loaded

\* C13: the totals of the buckets of a series add up to the records that
\* carry the bucketed value, and the overall sample size of a factor in the
\* factor summary is the number of records that carry the factor score.
C13_BucketConservation ==
  AnalyticsShown =>
    /\ Sum(Totals(data.value_calibration)) = Cardinality(WithValue)
    /\ Sum(Totals(data.factor_calibration["Consistency"]))
         = Cardinality(WithConsistency)
    /\ factorSummary[1].overall_n = Cardinality(WithConsistency)

\* C13 witness: of two records one carries no consistency score, and the
\* factor's overall sample size is 1.
C13_Witness ==
  /\ AnalyticsShown /\ Len(records) = 2
  /\ Cardinality(WithConsistency) = 1 /\ Cardinality(WithValue) = 2
  /\ factorSummary[1].overall_n = 1

\* C14: in every bucket and every rollup group 0 <= hits <= total, and every
\* rate that is computed is a percentage from 0 to 100 (0 when the total is
\* 0), never the result of a division by zero.
C14_RateBounds ==
  /\ \A i \in 1..Len(byMarket) :
       /\ 0 <= byMarket[i].hits /\ byMarket[i].hits <= byMarket[i].total
       /\ byMarket[i].pct \in 0..100
  /\ \A i \in 1..Len(byPlayer) :
       /\ 0 <= byPlayer[i].hits /\ byPlayer[i].hits <= byPlayer[i].total
       /\ byPlayer[i].hit_pct \in 0..100
       /\ byPlayer[i].avg_score \in 0..100
  /\ 0 <= summary.hits /\ summary.hits <= summary.graded
  /\ summary.hitPct \in 0..100
  /\ \A i \in 1..Len(valCalData) :
       /\ 0 <= valCalData[i].hits
       /\ valCalData[i].hits <= valCalData[i].sample
       /\ valCalData[i].actual_pct \in 0..100
  /\ \A i \in 1..Len(activeFactorData) :
       /\ 0 <= activeFactorData[i].hits
       /\ activeFactorData[i].hits <= activeFactorData[i].sample
       /\ activeFactorData[i].actual_pct \in 0..100
  /\ \A i \in 1..Len(factorSummary) :
       /\ factorSummary[i].overall_pct \in 0..100
       /\ factorSummary[i].high_pct \in 0..100

\* C14 witness: the value-score chart has an empty bucket, whose rate is 0,
\* and a bucket with a hit and a miss, whose rate is 50.
C14_Witness ==
  /\ AnalyticsShown
  /\ \E i \in 1..Len(valCalData) :
       valCalData[i].sample = 0 /\ valCalData[i].actual_pct = 0
  /\ \E i \in 1..Len(valCalData) :
       /\ valCalData[i].sample = 2 /\ valCalData[i].hits = 1
       /\ valCalData[i].actual_pct = 50

\* the records a displayed bucket lo-hi counts: those with a value from lo to
\* hi
InBucket(v, lo, hi) == v # NullScore /\ lo <= v /\ v <= hi

\* the records counted in the last regular bucket of the domain if a value of
\* domainMax is clamped into it
InLastRegular(v, lo, hi, width) ==
  /\ v # NullScore
  /\ (lo <= v /\ v <= hi) \/ (v = DomainMax /\ lo = DomainMax - width)

C18_FactorSummary ==
  AnalyticsShown =>
    \A i \in 1..Len(factorSummary) :
      LET f == factorSummary[i]
          buckets == FactorBuckets(data, FACTOR_ORDER[i])
          high == SelectSeq(buckets, LAMBDA b : b.bucket >= 60)
      IN /\ f.name = FACTOR_ORDER[i]
         /\ f.overall_n = Sum(Totals(buckets))
         /\ f.high_n = Sum(Totals(high))
         /\ f.high_n <= f.overall_n
         /\ Sum(Hits(high)) <= Sum(Hits(buckets))
         /\ f.overall_pct = (IF f.overall_n = 0 THEN 0
                             ELSE Round(100 * Sum(Hits(buckets)), f.overall_n))
         /\ f.high_pct = (IF f.high_n = 0 THEN 0
                          ELSE Round(100 * Sum(Hits(high)), f.high_n))
         /\ (HighCell(f) = <<>>) <=> (f.high_n = 0)
         /\ f.high_n > 0 => HighCell(f) = <<f.high_pct>>

\* C18 witness: the factor has a record in the bucket that starts at 60 and
\* one below, and the other factor has no sample and shows a dash.
C18_Witness ==
  /\ AnalyticsShown
  /\ factorSummary[1].overall_n = 2 /\ factorSummary[1].high_n = 1
  /\ \E k \in 1..Len(records) : records[k].score_consistency = 60
  /\ HighCell(factorSummary[1]) # <<>>
  /\ factorSummary[2].high_n = 0 /\ HighCell(factorSummary[2]) = <<>>

\* the cards that are shown as expanded
ExpandedCards == {c \in Cards(slips) : isExpanded(c[1], c[2])}

\* C20: the expansion keys of the cards are pairwise distinct, within the
\* singles, within the multis and between the two groups, so at most one
\* card is shown as expanded.
C20_KeysDisjoint ==
  /\ \A c, d \in Cards(slips) :
       c # d => cardKey(c[1], c[2]) # cardKey(d[1], d[2])
  /\ Cardinality(ExpandedCards) <= 1

\* C20 witness: there are two singles and a multi, and the first single is
\* the one card that is expanded.
C20_Witness ==
  /\ page = "ladder" /\ loaded
  /\ Len(singles(slips)) = 2 /\ Len(multis(slips)) = 1
  /\ ExpandedCards = {<<"s", 0>>}

\* the ladder page shows loaded slips
LadderShown == page = "ladder" /\ loaded

\* C21: a slip is in the single group exactly when it has one leg and in the
\* multi group exactly when it has two or more, whatever its type field.
C21_SingleIffOneLeg ==
  LadderShown =>
    /\ singles(slips) = SelectSeq(slips, LAMBDA x : x.legs = 1)
    /\ multis(slips) = SelectSeq(slips, LAMBDA x : x.legs >= 2)

\* the elements of arr at the indices in S, in the order of arr
Restrict(arr, S) ==
  LET part[k \in 0..Len(arr)] ==
        IF k = 0 THEN <<>>
        ELSE IF k \in S THEN Append(part[k - 1], arr[k]) ELSE part[k - 1]
  IN part[Len(arr)]

\* C22: the slips are split in two without loss: some of the positions of the
\* input make up the singles and all the others the multis, each group in
\* the order of the input, so the lengths add up to the length of the input.
C22_StablePartition ==
  LadderShown =>
    /\ \E S \in SUBSET (1..Len(slips)) :
         /\ singles(slips) = Restrict(slips, S)
         /\ multis(slips) = Restrict(slips, (1..Len(slips)) \ S)
    /\ Len(singles(slips)) + Len(multis(slips)) = Len(slips)

\* C22 witness: of three slips the first and the last are singles with
\* different legs, kept in that order, and the one without a type is the
\* only multi.
C22_Witness ==
  /\ LadderShown /\ Len(slips) = 3
  /\ slips[1].type = "single" /\ slips[1].legs = 2
  /\ slips[2].type = Null
  /\ slips[3].type = "single" /\ slips[3].legs = 1
  /\ singles(slips) = <<slips[1], slips[3]>>
  /\ multis(slips) = <<slips[2]>>

\* the prop-results page shows loaded rows
PropResultsShown == page = "propResults" /\ loaded

\* C23: both rollups are in the order of descending hit rate, entries with
\* the same hit rate in the order of descending graded count.
C23_SortedByHitRate ==
  PropResultsShown =>
    /\ \A i, j \in 1..Len(byMarket) :
         i < j => \/ byMarket[i].pct > byMarket[j].pct
                  \/ /\ byMarket[i].pct = byMarket[j].pct
                     /\ byMarket[i].total >= byMarket[j].total
    /\ \A i, j \in 1..Len(byPlayer) :
         i < j => \/ byPlayer[i].hit_pct > byPlayer[j].hit_pct
                  \/ /\ byPlayer[i].hit_pct = byPlayer[j].hit_pct
                     /\ byPlayer[i].total >= byPlayer[j].total

\* C30: the summary counters of the loaded rows: total = graded + pending,
\* hits + misses = graded, pending is the number of rows without a result,
\* and the hit percentage is round(100 * hits / graded), 0 without graded
\* rows.
C30_SummaryCounters ==
  PropResultsShown =>
    /\ summary.total = Len(rows)
    /\ summary.total = summary.graded + summary.pending
    /\ summary.hits + summary.misses = summary.graded
    /\ summary.pending = Len(rows) - Cardinality(GradedRows)
    /\ summary.hits = Cardinality(HitRows)
    /\ summary.hitPct
         = (IF summary.graded > 0
              THEN (200 * summary.hits + summary.graded)
                     \div (2 * summary.graded)
              ELSE 0)

\* C30 witness: of three rows one is pending, one a hit and one a miss, and
\* the hit percentage is 50; there are loads without a graded row too, where
\* it is 0.
C30_Witness ==
  /\ PropResultsShown
  /\ summary.total = 3 /\ summary.pending = 1
  /\ summary.hits = 1 /\ summary.misses = 1 /\ summary.hitPct = 50

\* the handle the cleanup of the page passes to clearInterval
OwnTimer ==
  IF page = "dashboard" THEN intervalId
  ELSE IF page = "ladder" THEN pollRef
  ELSE checkPollRef

\* a step in which the cleanup of the unmount runs (cancel)
CancelStep == mounted /\ ~mounted'

\* a step in which the loop stops itself: the callback of an interval receives
\* the answer to its status fetch and runs its terminal branch
TerminalStep ==
  /\ termCount' # termCount /\ termCount' >= 1
  /\ \E r \in InFlight("tick") : CopiesIn(r, net') < CopiesIn(r, net)

\* C24: cancel stops the poller's own current timer and nothing else, and
\* changes no state of the coordinator; on a poller that was never started
\* and right after the loop has stopped itself there is no timer it could
\* stop, so it does nothing at all.
C24_CancelIsNoOp ==
  [][/\ CancelStep =>
          /\ timers' = timers \ {OwnTimer}
          /\ UNCHANGED <<backend, dashVars, ladderVars, checkVars>>
          /\ (starts = 0 /\ NoMountLoop) => timers' = timers
     /\ TerminalStep => OwnTimer' \notin timers']_vars

\* C24 witness: the ladder page was unmounted after its loop had stopped
\* itself on done; pollRef still holds the handle of the stopped interval
\* and the cleanup cleared nothing.
C24_Witness ==
  /\ page = "ladder" /\ ~mounted /\ status = "done" /\ termCount = 1
  /\ pollRef # NoTimer /\ timers = {} /\ ~triggering

\* the results check has been started again and has not created its interval
\* yet: its trigger call or its immediate status fetch is in flight, so a
\* tick fetch in flight was issued by the loop of an earlier start
NewCheckStarting ==
  /\ page \in CheckPages /\ mounted /\ starts >= 2
  /\ trig = "inflight" \/ InFlight("initial") # {}

\* C25: a status response of an earlier, finished results-check loop that
\* arrives after a new check has been started changes neither the status nor
\* the checking flag nor the timers of the new check.
C25_LateResponseIgnored ==
  [][NewCheckStarting =>
       \A r \in InFlight("tick") :
         net' = Receive(r) => UNCHANGED <<checkStatus, checking, timers>>]_vars

\* the in-progress flag of the page
InProgress ==
  IF page = "dashboard" THEN refreshing
  ELSE IF page = "ladder" THEN triggering
  ELSE checking

\* what the page displays of the job: the result set, the expansion state and
\* the last-known status
Displayed == <<slips, expanded, refreshStatus, status, checkStatus>>

\* a step in which a start attempt is made: the handler runs up to its
\* trigger call
StartStep == starts' = starts + 1

\* a step in which the rejection of the trigger call is handled
TriggerFailureStep == trig = "inflight" /\ trig' = "failed"

\* C26: a start attempt whose trigger call fails leaves the displayed state
\* as it was: neither the start of the attempt nor the handling of the
\* failure changes the result set, the expansion state or the last-known
\* status, and once the failure has been handled on a mounted page the
\* in-progress flag is false.
C26_FailedStartLeavesState ==
  [][/\ StartStep => UNCHANGED Displayed
     /\ TriggerFailureStep =>
          /\ UNCHANGED Displayed
          /\ mounted' => ~InProgress']_vars

\* a step in which buildSlips is called
BuildStep == ~loading /\ loading'

\* C27: a displayed slip is marked as saved only if a saveSlip call for its
\* index has succeeded for the result set that is displayed, and right after
\* a buildSlips no slip is marked saved or expanded.
C27_SavedOnlyIfSaved ==
  [][/\ \A idx \in 0..(Len(slips') - 1) : idx \in saved' => idx \in savedOk'
     /\ BuildStep => saved' = {} /\ expanded' = <<>>]_vars

\* a step that issues a trigger call
TriggerIssued == Pending("trigger")' > Pending("trigger")

\* C28: on the mounted ladder page a polling timer is active exactly when
\* the last-known status is running, it is the interval pollRef holds, and
\* a trigger call is issued only by the Run action, with its button enabled:
\* the loop of a job found running at mount runs without a trigger call.
C28_TimerIffRunning ==
  [][(page = "ladder" /\ mounted') =>
       /\ (timers' # {}) <=> (status' = "running")
       /\ timers' \subseteq {pollRef'}
       /\ TriggerIssued =>
            /\ ~(isRunning \/ triggering)
            /\ triggering' /\ starts' = starts + 1]_vars

\* C28 witness: the page was mounted while the job was running; the loop the
\* status loaded at mount started has polled the job to done and has stopped,
\* and no trigger call was made.
C28_Witness ==
  /\ page = "ladder" /\ mounted /\ starts = 0
  /\ status = "done" /\ timers = {} /\ termCount = 1

\* the poll loop has stopped: no timer is active and the trigger control is
\* enabled
LoopStopped == timers = {} /\ ~ControlDisabled

\* C29: on a page that stays mounted, after a trigger call has succeeded the
\* poll loop eventually stops: no timer is active and the trigger control is
\* enabled again.
C29_LoopEventuallyStops == (trig = "ok") ~> LoopStopped

====
